---- MODULE Spec2Model ----
(***************************************************************************)
(* Servo command bridge of the robotrave repository.                       *)
(*                                                                         *)
(* Three bridge scripts exist, each its own process:                       *)
(*   "reciever" : client/scripts/servo_reciever.py      (HTTP)             *)
(*   "ws"       : client/scripts/servo_receiver_ws.py   (WebSocket)        *)
(*   "tonypi"   : client/scripts/tonypi_servo_server.py (HTTP, rate limit) *)
(* A behaviour of the model is the lifetime of one such process.           *)
(*                                                                         *)
(* A JSON number is modelled as the rational n / DegDen; the other values  *)
(* a numeric field can hold are NaN, +-Infinity (Python's json.loads       *)
(* accepts them) and a non-numeric value.                                  *)
(***************************************************************************)
EXTENDS Integers, Sequences, FiniteSets, TLC

\* ------------------------------------------------------------------ bounds
DegDen == 10          \* resolution of a JSON number: n stands for n / DegDen
MaxCmds == 2          \* requests / frames handled in one behaviour

CodecMargin == 40     \* how far beyond [0, 180] the codec inputs go, in 1 / DegDen

\* --------------------------------------------------------- program constants
NumBusServos == 16    \* range(1, 17), len(degrees) != 16
BusMin == 0
BusMax == 1000
PwmMin == 500
PwmMax == 2500
NeutralBus == 500
NeutralPwm == 1500
StartupMs == 1000     \* reset_to_neutral(time_ms=1000)
ShutdownMs == 500     \* reset_to_neutral(time_ms=500)
CmdMs == 80           \* set_bus_servo(..., 80) / --move-ms default
max_fps == 10         \* --max-fps default
LogEveryMs == 1000    \* now - last_log_time > 1.0
Unset == -1           \* an instance attribute that has not been assigned
Epoch == 5000         \* time.time() at process start, in ms (far from 0.0)

Conns == {1, 2}       \* the WebSocket connections that may be open at once

\* ------------------------------------------------------------------ values
Num(n) == [t |-> "num", n |-> n]
NaN == [t |-> "nan", n |-> 0]
PosInf == [t |-> "inf", n |-> 0]
NegInf == [t |-> "ninf", n |-> 0]
NonNumeric == [t |-> "str", n |-> 0]
Absent == [t |-> "absent", n |-> 0]

Deg(d) == Num(d * DegDen)

Min2(a, b) == IF a < b THEN a ELSE b
Max2(a, b) == IF a > b THEN a ELSE b

\* clamp on two Python ints
clampInt(v, lo, hi) == Max2(lo, Min2(hi, v))

\* float(x): raises for a non-numeric value
FloatOK(v) == v.t \in {"num", "nan", "inf", "ninf"}

\* int(x): raises for a non-numeric value, NaN and the infinities
IntOK(v) == v.t = "num"

\* int(x) of a finite number truncates toward zero
IntOf(v) == IF v.n >= 0 THEN v.n \div DegDen ELSE -((-v.n) \div DegDen)

\* round() of the non-negative rational num / den (ties go to the even integer)
RoundHalfEven(num, den) ==
  LET q == num \div den
      r == num % den
  IN  IF 2 * r < den THEN q
      ELSE IF 2 * r > den THEN q + 1
      ELSE IF q % 2 = 0 THEN q ELSE q + 1

\* the degrees taken as they come, bounded by the numeric range only
clampDeg_unclamped(v) ==
  CASE v.t = "num" -> v.n
    [] v.t = "nan" -> 180 * DegDen
    [] v.t = "inf" -> 1000 * DegDen
    [] OTHER -> -1000 * DegDen

\* clamp(float(deg), 0, 180) = max(0, min(180, v)), in units of 1 / DegDen.
\* min(180, nan) is 180 because the comparison nan < 180 is false.
clampDeg(v) ==
  CASE v.t = "num" -> Max2(0, Min2(180 * DegDen, v.n))
    [] v.t = "nan" -> 180 * DegDen
    [] v.t = "inf" -> 180 * DegDen
    [] OTHER -> 0

\* the bus conversion scaled by the PWM span
degrees_to_pulse_pwmspan(v) == RoundHalfEven(clampDeg(v) * 2000, 180 * DegDen)

\* int(round(deg / 180.0 * 1000))
degrees_to_pulse(v) == RoundHalfEven(clampDeg(v) * 1000, 180 * DegDen)

\* the PWM conversion without its 500 us offset
degrees_to_pwm_us_nooffset(v) == RoundHalfEven(clampDeg(v) * 2000, 180 * DegDen)

\* int(round(500 + (deg / 180.0) * 2000))
degrees_to_pwm_us(v) ==
  RoundHalfEven(500 * 180 * DegDen + clampDeg(v) * 2000, 180 * DegDen)

\* servo_client.py: max(10, min(170, degrees)), in units of 1 / DegDen;
\* min(170, nan) is 170
client_clamp(v) ==
  CASE v.t = "num" -> Max2(10 * DegDen, Min2(170 * DegDen, v.n))
    [] v.t = "nan" -> 170 * DegDen
    [] v.t = "inf" -> 170 * DegDen
    [] OTHER -> 10 * DegDen

\* The degrees, in tenths, for which the double (degrees / 180.0) * 1000
\* comes out just below the integer it stands for (12.6 gives 69.99...).
FloatShortfall ==
  {126, 207, 252, 414, 504, 603, 711, 801, 828, 981, 1008, 1206, 1233, 1377, 1422,
   1431, 1602, 1647, 1656}

\* servo_client.py degrees_to_pulse: int((degrees / 180.0) * 1000) of the
\* clamped degrees; int() truncates
client_degrees_to_pulse(v) ==
  LET d == client_clamp(v)
      q == (d * 1000) \div (180 * DegDen)
      whole == (d * 1000) % (180 * DegDen) = 0
  IN  IF whole /\ \E t \in FloatShortfall : d * 10 = t * DegDen THEN q - 1 ELSE q

\* ------------------------------------------------------------- driver calls
\* A step of a handler: a call of set_bus_servo / set_pwm_servo, or the point
\* where a conversion raises.
Raise == [op |-> "raise", id |-> 0, val |-> 0, dur |-> 0]

\* set_bus_servo with the clamp of the pulse left out
set_bus_servo_unclamped(id, pulse, ms) ==
  [op |-> "bus", id |-> id, val |-> pulse, dur |-> Max2(0, ms)]

\* set_bus_servo(servo_id, pulse, time_ms): int(clamp(pulse, 0, 1000))
set_bus_servo(id, pulse, ms) ==
  [op |-> "bus", id |-> id, val |-> clampInt(pulse, BusMin, BusMax), dur |-> Max2(0, ms)]

\* set_pwm_servo(channel, pulse_us, time_ms): int(clamp(pulse_us, 500, 2500))
set_pwm_servo(ch, us, ms) ==
  [op |-> "pwm", id |-> ch, val |-> clampInt(us, PwmMin, PwmMax), dur |-> Max2(0, ms)]

\* reset_to_neutral looping over range(1, 16): servo 16 is left out
reset_to_neutral_short(ms) ==
  [i \in 1..(NumBusServos - 1) |->
     [op |-> "bus", id |-> i, val |-> NeutralBus, dur |-> Max2(0, ms)]]
    \o << [op |-> "pwm", id |-> 1, val |-> NeutralPwm, dur |-> Max2(0, ms)],
          [op |-> "pwm", id |-> 2, val |-> NeutralPwm, dur |-> Max2(0, ms)] >>

\* reset_to_neutral(time_ms)
reset_to_neutral(ms) ==
  [i \in 1..NumBusServos |-> set_bus_servo(i, NeutralBus, ms)]
    \o << set_pwm_servo(1, NeutralPwm, ms), set_pwm_servo(2, NeutralPwm, ms) >>

\* the steps up to the first one that raises
UntilRaise(steps) ==
  LET bad == {i \in DOMAIN steps : steps[i].op = "raise"}
  IN  IF bad = {} THEN steps
      ELSE SubSeq(steps, 1, (CHOOSE i \in bad : \A j \in bad : i <= j) - 1)

Raises(steps) == \E i \in DOMAIN steps : steps[i].op = "raise"

\* The driver-call record of a step: src is 0 for the startup reset, -1 for
\* the shutdown reset and the index of the request otherwise.
Call(step, ok, src) ==
  [op |-> step.op, id |-> step.id, val |-> step.val, dur |-> step.dur,
   ok |-> ok, src |-> src]

\* the driver raises on this call: bad is the set of bus servo IDs whose
\* writes fail (a servo that does not answer on the bus)
Fails(step, bad) == step.op = "bus" /\ step.id \in bad

\* set_* of servo_reciever.py: the driver's exception is caught in the call,
\* and without a driver (ROBOT_AVAILABLE false) the call returns at once.
ExecCatching(steps, avail, bad, src) ==
  LET run == UntilRaise(steps)
  IN  IF avail THEN [i \in DOMAIN run |-> Call(run[i], ~Fails(run[i], bad), src)]
      ELSE << >>

\* the driver raises on one of the calls the steps make
DriverRaises(steps, avail, bad) ==
  avail /\ \E i \in DOMAIN UntilRaise(steps) : Fails(UntilRaise(steps)[i], bad)

\* set_* of the other two bridges: the driver's exception propagates, the
\* failing call is the last one made.
ExecPropagating(steps, avail, bad, src) ==
  LET run == UntilRaise(steps)
      hit == {i \in DOMAIN run : Fails(run[i], bad)}
      upto == IF hit = {} THEN Len(run) ELSE CHOOSE i \in hit : \A j \in hit : i <= j
  IN  IF avail THEN [i \in 1..upto |-> Call(run[i], ~Fails(run[i], bad), src)]
      ELSE << >>


\* ---------------------------------------------------------------- messages
\* A decoded JSON body / frame.  json: "bad" (json.loads raises), "other"
\* (valid JSON that is not an object) or "obj".
NoHead == [shape |-> "absent", p1 |-> Absent, p2 |-> Absent]
HeadObj(a, b) == [shape |-> "dict", p1 |-> a, p2 |-> b]
NoDegrees == [shape |-> "absent", vals |-> << >>]
NotAList == [shape |-> "other", vals |-> << >>]
Degrees(vals) == [shape |-> "list", vals |-> vals]
NoServos == [shape |-> "absent", items |-> << >>]
Servos(items) == [shape |-> "dict", items |-> items]
Item(key, pulse) == [sid |-> [ok |-> TRUE, id |-> key], pulse |-> pulse]
BadKeyItem(pulse) == [sid |-> [ok |-> FALSE, id |-> 0], pulse |-> pulse]

Msg(j, ty, k, d, h, s) ==
  [json |-> j, type |-> ty, kind |-> k, degrees |-> d, head |-> h, servos |-> s]

\* n entries, all base, except entry pos which is x
Vals(n, base, pos, x) == [i \in 1..n |-> IF i = pos THEN x ELSE base]

Dense(vals, head) == Msg("obj", "none", "humanoid16", Degrees(vals), head, NoServos)
Sparse(items, head) == Msg("obj", "servos", "none", NoDegrees, head, Servos(items))

BadJson == Msg("bad", "none", "none", NoDegrees, NoHead, NoServos)
NotAnObject == Msg("other", "none", "none", NoDegrees, NoHead, NoServos)
EmptyObject == Msg("obj", "none", "none", NoDegrees, NoHead, NoServos)
Ping == Msg("obj", "ping", "none", NoDegrees, NoHead, NoServos)

\* a mix of in-range and out-of-range degrees: -10, 200, NaN, 45.5
Wild ==
  [i \in 1..NumBusServos |->
     CASE i = 2 -> Deg(-10) [] i = 3 -> Deg(200) [] i = 5 -> NaN
       [] i = 7 -> Num(45 * DegDen + (DegDen \div 2)) [] OTHER -> Deg(90)]

GoodDense ==
  { Dense(Vals(NumBusServos, Deg(90), 0, Deg(90)), NoHead),
    Dense(Vals(NumBusServos, Deg(30), 0, Deg(30)), HeadObj(Deg(45), Deg(120))),
    Dense(Wild, HeadObj(Deg(-5), PosInf)) }

WrongShapeDense ==
  { Dense(Vals(NumBusServos - 1, Deg(90), 0, Deg(90)), NoHead),
    Dense(Vals(NumBusServos + 1, Deg(90), 0, Deg(90)), HeadObj(Deg(45), Deg(120))),
    Msg("obj", "none", "humanoid16", NoDegrees, NoHead, NoServos),
    Msg("obj", "none", "humanoid16", NotAList, NoHead, NoServos) }

NonNumericDense ==
  { Dense(Vals(NumBusServos, Deg(90), 1, NonNumeric), NoHead),
    Dense(Vals(NumBusServos, Deg(90), NumBusServos, NonNumeric), NoHead),
    Dense(Vals(NumBusServos, Deg(90), 0, Deg(90)), HeadObj(Deg(45), NonNumeric)) }

OtherDense ==
  { Dense(Vals(NumBusServos, Deg(90), 1, NaN), NoHead),
    Dense(Vals(NumBusServos, Deg(60), 0, Deg(60)), HeadObj(Deg(45), Absent)) }

SparseMsgs ==
  { Sparse(<< Item(1, Num(500 * DegDen)) >>, NoHead),
    Sparse(<< Item(1, Num(5000 * DegDen)), Item(2, Num(-3 * DegDen)) >>,
           HeadObj(Num(3000 * DegDen), Absent)),
    Sparse(<< Item(3, Num((29 * DegDen) \div 10)), BadKeyItem(Num(DegDen)) >>, NoHead),
    Sparse(<< Item(4, NonNumeric) >>, NoHead),
    Sparse(<< Item(4, NaN) >>, NoHead),
    Msg("obj", "servos", "humanoid16", Degrees(Vals(NumBusServos, Deg(90), 0, Deg(90))),
        NoHead, Servos(<< Item(6, Num(700 * DegDen)) >>)) }

\* a dense command that also carries a servos mapping, without the type
UntypedServos ==
  Msg("obj", "none", "humanoid16", Degrees(Vals(NumBusServos, Deg(90), 0, Deg(90))),
      NoHead, Servos(<< Item(6, Num(700 * DegDen)) >>))

PingMsgs ==
  { Ping,
    Msg("obj", "ping", "humanoid16", Degrees(Vals(NumBusServos, Deg(90), 0, Deg(90))),
        NoHead, NoServos) }

Malformed == { BadJson, NotAnObject }

HttpBodies ==
  GoodDense \cup WrongShapeDense \cup NonNumericDense \cup OtherDense
    \cup Malformed \cup { EmptyObject }

Frames ==
  GoodDense \cup WrongShapeDense \cup NonNumericDense \cup Malformed
    \cup SparseMsgs \cup PingMsgs \cup { UntypedServos }

\* the method and path of an HTTP request the handlers serve
Targets ==
  { [method |-> "POST", path |-> "/servo"], [method |-> "POST", path |-> "/other"],
    [method |-> "OPTIONS", path |-> "/servo"], [method |-> "OPTIONS", path |-> "/other"] }

\* the bodies tried with each target (the body is not read off /servo)
BodiesFor(tg) ==
  IF tg.method = "POST" /\ tg.path = "/servo" THEN HttpBodies
  ELSE { CHOOSE m \in GoodDense : m.head.shape = "absent" }

FaultySets == { {}, {2} }   \* the bus servo IDs whose driver calls raise
Gaps == {50, 1500}          \* ms between two arrivals
SignalPoints == {0, 7, 18}  \* driver calls made when the signal is delivered


\* ----------------------------------------------------------------- handlers
\* the dense loop with the list index taken as the bus ID
DenseSteps_zero_based(vals, head) ==
  [i \in 1..Len(vals) |->
     IF FloatOK(vals[i]) THEN set_bus_servo(i - 1, degrees_to_pulse(vals[i]), CmdMs)
     ELSE Raise]
  \o (IF head.shape = "dict" /\ head.p1.t # "absent"
      THEN << IF FloatOK(head.p1)
              THEN set_pwm_servo(1, degrees_to_pwm_us(head.p1), CmdMs) ELSE Raise >>
      ELSE << >>)
  \o (IF head.shape = "dict" /\ head.p2.t # "absent"
      THEN << IF FloatOK(head.p2)
              THEN set_pwm_servo(2, degrees_to_pwm_us(head.p2), CmdMs) ELSE Raise >>
      ELSE << >>)

\* servo_reciever.py do_POST lines 160-171 and servo_receiver_ws.py handler
\* lines 106-113: each degree is converted right before its own call.
DenseSteps(vals, head) ==
  [i \in 1..Len(vals) |->
     IF FloatOK(vals[i]) THEN set_bus_servo(i, degrees_to_pulse(vals[i]), CmdMs) ELSE Raise]
  \o (IF head.shape = "dict" /\ head.p1.t # "absent"
      THEN << IF FloatOK(head.p1)
              THEN set_pwm_servo(1, degrees_to_pwm_us(head.p1), CmdMs) ELSE Raise >>
      ELSE << >>)
  \o (IF head.shape = "dict" /\ head.p2.t # "absent"
      THEN << IF FloatOK(head.p2)
              THEN set_pwm_servo(2, degrees_to_pwm_us(head.p2), CmdMs) ELSE Raise >>
      ELSE << >>)

\* the debug output of do_POST: int(round(d)) for d in degrees[:4] raises
\* for NaN and the infinities
LogRaises(vals) ==
  \E i \in 1..Min2(4, Len(vals)) : vals[i].t \in {"nan", "inf", "ninf"}

\* servo_reciever.py ServoHandler.do_POST, the body of its try block
ServoHandler_steps(msg, logDue) ==
  IF msg.json # "obj" THEN << Raise >>
  ELSE IF msg.kind # "humanoid16" THEN << Raise >>
  ELSE IF msg.degrees.shape # "list" \/ Len(msg.degrees.vals) # NumBusServos THEN << Raise >>
  ELSE DenseSteps(msg.degrees.vals, msg.head)
         \o (IF logDue /\ LogRaises(msg.degrees.vals) THEN << Raise >> ELSE << >>)

\* servo_receiver_ws.py handler, the sparse branch (type == "servos")
SparseSteps(servos, head) ==
  (IF servos.shape = "dict"
   THEN [i \in 1..Len(servos.items) |->
           IF servos.items[i].sid.ok /\ IntOK(servos.items[i].pulse)
           THEN set_bus_servo(servos.items[i].sid.id, IntOf(servos.items[i].pulse), CmdMs)
           ELSE Raise]
   ELSE << >>)
  \o (IF head.shape = "dict" /\ head.p1.t # "absent"
      THEN << IF IntOK(head.p1) THEN set_pwm_servo(1, IntOf(head.p1), CmdMs) ELSE Raise >>
      ELSE << >>)
  \o (IF head.shape = "dict" /\ head.p2.t # "absent"
      THEN << IF IntOK(head.p2) THEN set_pwm_servo(2, IntOf(head.p2), CmdMs) ELSE Raise >>
      ELSE << >>)

\* the loop body without the `continue` that ends the servos branch
ws_handler_steps_fallthrough(msg) ==
  IF msg.json # "obj" THEN << Raise >>
  ELSE (IF msg.type = "servos" THEN SparseSteps(msg.servos, msg.head) ELSE << >>)
       \o (IF msg.kind # "humanoid16" THEN << >>
           ELSE IF msg.degrees.shape # "list" \/ Len(msg.degrees.vals) # NumBusServos
                THEN << >>
           ELSE DenseSteps(msg.degrees.vals, msg.head))

\* servo_receiver_ws.py handler: one iteration of the loop over the frames
ws_handler_steps(msg) ==
  IF msg.json # "obj" THEN << Raise >>
  ELSE IF msg.type = "servos" THEN SparseSteps(msg.servos, msg.head)
  ELSE IF msg.kind # "humanoid16" THEN << >>
  ELSE IF msg.degrees.shape # "list" \/ Len(msg.degrees.vals) # NumBusServos THEN << >>
  ELSE DenseSteps(msg.degrees.vals, msg.head)

\* what the handler sends back for a frame: it never calls websocket.send
ws_reply(msg) == "none"

\* the frame is one the loop body skips with `continue` before any call
ws_skipped(msg) ==
  /\ msg.json = "obj"
  /\ msg.type # "servos"
  /\ \/ msg.kind # "humanoid16"
     \/ msg.degrees.shape # "list"
     \/ Len(msg.degrees.vals) # NumBusServos

\* tonypi_servo_server.py
deg_to_bus_pos(v) == RoundHalfEven(clampDeg(v) * 1000, 180 * DegDen)

deg_to_pwm_us(v) == RoundHalfEven(500 * 180 * DegDen + clampDeg(v) * 2000, 180 * DegDen)

TonyPi_set_bus_servo(id, pos, ms) ==
  [op |-> "bus", id |-> id, val |-> clampInt(pos, BusMin, BusMax), dur |-> Max2(0, ms)]

TonyPi_set_pwm_servo(ch, us, ms) ==
  [op |-> "pwm", id |-> ch, val |-> clampInt(us, PwmMin, PwmMax), dur |-> Max2(0, ms)]

\* parse_payload returns a head only when p1 and p2 are both there
HasHead(msg) ==
  msg.head.shape = "dict" /\ msg.head.p1.t # "absent" /\ msg.head.p2.t # "absent"

\* parse_payload raises
parse_payload_raises(msg) ==
  \/ msg.json # "obj"
  \/ msg.kind # "humanoid16"
  \/ msg.degrees.shape # "list"
  \/ Len(msg.degrees.vals) # NumBusServos
  \/ \E i \in DOMAIN msg.degrees.vals : ~FloatOK(msg.degrees.vals[i])
  \/ HasHead(msg) /\ (~FloatOK(msg.head.p1) \/ ~FloatOK(msg.head.p2))

\* Handler.do_POST, the body of its try block
Handler_steps(msg) ==
  IF parse_payload_raises(msg) THEN << Raise >>
  ELSE [i \in 1..NumBusServos |->
          TonyPi_set_bus_servo(i, deg_to_bus_pos(msg.degrees.vals[i]), CmdMs)]
       \o (IF HasHead(msg)
           THEN << TonyPi_set_pwm_servo(1, deg_to_pwm_us(msg.head.p1), CmdMs),
                   TonyPi_set_pwm_servo(2, deg_to_pwm_us(msg.head.p2), CmdMs) >>
           ELSE << >>)

\* h.min_interval_s = 1.0 / max(1.0, float(args.max_fps)), in ms
min_interval_ms == 1000 \div Max2(1, max_fps)

\* what a handler answers: status 0 stands for no response at all
Outcome(status, cors, errbody, calls, verdict, la) ==
  [status |-> status, cors |-> cors, errbody |-> errbody, calls |-> calls,
   verdict |-> verdict, la |-> la]

\* do_OPTIONS of both HTTP bridges
do_OPTIONS(la) == Outcome(204, TRUE, FALSE, << >>, "preflight", la)

\* ServoHandler.do_POST with the check of self.path left out
ServoHandler_do_POST_anypath(path, msg, avail, logDue, bad, src) ==
  LET steps == ServoHandler_steps(msg, logDue)
      calls == ExecCatching(steps, avail, bad, src)
  IN  IF Raises(steps) THEN Outcome(400, TRUE, TRUE, calls, "invalid", Unset)
      ELSE Outcome(204, TRUE, FALSE, calls, "applied", Unset)

\* servo_reciever.py ServoHandler.do_POST
ServoHandler_do_POST(path, msg, avail, logDue, bad, src) ==
  LET steps == ServoHandler_steps(msg, logDue)
      calls == ExecCatching(steps, avail, bad, src)
  IN  IF path # "/servo" THEN Outcome(404, TRUE, FALSE, << >>, "notfound", Unset)
      ELSE IF Raises(steps) THEN Outcome(400, TRUE, TRUE, calls, "invalid", Unset)
      ELSE Outcome(204, TRUE, FALSE, calls, "applied", Unset)

\* tonypi_servo_server.py Handler.do_POST; la is self.last_at when it is
\* called, at is time.time().  Reading an unassigned self.last_at raises
\* AttributeError outside the try block: the request gets no response.
Handler_do_POST(path, msg, la, at, bad, src) ==
  LET steps == Handler_steps(msg)
      calls == ExecPropagating(steps, TRUE, bad, src)
  IN  IF path # "/servo" THEN Outcome(404, TRUE, FALSE, << >>, "notfound", la)
      ELSE IF la = Unset THEN Outcome(0, FALSE, FALSE, << >>, "aborted", la)
      ELSE IF at - la < min_interval_ms THEN Outcome(204, TRUE, FALSE, << >>, "dropped", la)
      ELSE IF Raises(steps) \/ DriverRaises(steps, TRUE, bad)
           THEN Outcome(400, TRUE, TRUE, calls, "invalid", at)
      ELSE Outcome(204, TRUE, FALSE, calls, "applied", at)

\* main.handler_factory: Handler(*_a, **_kw) serves the request inside the
\* constructor (BaseRequestHandler.__init__ calls handle()), so do_POST runs
\* before h.last_at = 0.0 is assigned: the attribute it reads is unassigned.
handler_factory_last_at == Unset


\* -------------------------------------------------------------------- state
VARIABLES
  bridge,         \* which script this process runs
  sdk,            \* the driver shape the import probe finds ("none": no SDK)
  faulty,         \* the bus servo IDs whose driver calls raise
  no_reset,       \* servo_reciever.py --no-reset
  phase,          \* "boot", "serving" or "exited"
  exitvia,        \* "" / "handler" (shutdown_handler) / "default" / "crash"
  signalled,      \* SIGINT or SIGTERM has been delivered
  hw,             \* the calls that reached the servo driver, in order
  hist,           \* the requests / frames handled, in order, with their outcome
  conn,           \* WebSocket connections: "none", "open" or "closed"
  now,            \* time.time() in ms
  last_log_time,  \* ServoHandler.last_log_time in ms
  task,           \* call-by-call view: per command its connection and pending calls
  running,        \* call-by-call view: the command whose handler holds the thread
  cdeg,           \* codec view: the degrees values handed to the codecs
  cres            \* codec view: what the codecs returned for them

vars == << bridge, sdk, faulty, no_reset, phase, exitvia, signalled, hw, hist, conn,
           now, last_log_time, task, running, cdeg, cres >>

\* the variables of the call-by-call view and of the codec view
aux == << task, running, cdeg, cres >>

Bridges == {"reciever", "ws", "tonypi"}
\* "none": neither package can be imported; "broken": hiwonder can be imported
\* but rrc.Board() / Controller(board) raises, and HiwonderSDK is missing
SDKs == {"hiwonder.Controller", "HiwonderSDK.Board", "none", "broken"}

\* ROBOT_AVAILABLE of servo_reciever.py and servo_receiver_ws.py
ROBOT_AVAILABLE == sdk \in {"hiwonder.Controller", "HiwonderSDK.Board"}

\* The probe of servo_reciever.py and servo_receiver_ws.py catches ImportError
\* only: any other exception of the first attempt ends the process.
ProbeCrashes == sdk = "broken"

Init ==
  /\ bridge \in Bridges
  /\ sdk \in SDKs
  /\ faulty \in (IF ROBOT_AVAILABLE THEN FaultySets ELSE { {} })
  /\ no_reset \in (IF bridge = "reciever" THEN BOOLEAN ELSE {FALSE})
  /\ phase = "boot"
  /\ exitvia = ""
  /\ signalled = FALSE
  /\ hw = << >>
  /\ hist = << >>
  /\ conn = [c \in Conns |-> "none"]
  /\ now = Epoch
  /\ last_log_time = 0
  /\ task = << >>
  /\ running = 0
  /\ cdeg = << >>
  /\ cres = << >>

Entry(tg, msg, c, at, out, la) ==
  [method |-> tg.method, path |-> tg.path, msg |-> msg, conn |-> c, at |-> at,
   status |-> out.status, cors |-> out.cors, errbody |-> out.errbody,
   reply |-> "none", verdict |-> out.verdict, ncalls |-> Len(out.calls),
   la_before |-> la, la_after |-> out.la]

\* the calls main() makes before serve_forever()
StartupCalls ==
  IF ~no_reset /\ ROBOT_AVAILABLE
  THEN ExecCatching(reset_to_neutral(StartupMs), TRUE, faulty, 0) ELSE << >>

\* the calls of shutdown_handler
ShutdownCalls ==
  IF ROBOT_AVAILABLE
  THEN ExecCatching(reset_to_neutral(ShutdownMs), TRUE, faulty, -1) ELSE << >>

\* servo_reciever.py main(): the startup reset, then the signal handlers are
\* installed and the server starts
reciever_main ==
  /\ bridge = "reciever" /\ phase = "boot"
  /\ hw' = StartupCalls
  /\ phase' = IF ProbeCrashes THEN "exited" ELSE "serving"
  /\ exitvia' = IF ProbeCrashes THEN "crash" ELSE exitvia
  /\ UNCHANGED aux
  /\ UNCHANGED << bridge, sdk, faulty, no_reset, signalled, hist, conn, now,
                  last_log_time >>

\* A signal delivered before signal.signal() has run (during the startup
\* reset or the sleep after it) has its default disposition: the process
\* ends after k calls of the reset, shutdown_handler does not run.
reciever_signal_at_startup(k) ==
  /\ bridge = "reciever" /\ phase = "boot"
  /\ k <= Len(StartupCalls)
  /\ hw' = SubSeq(StartupCalls, 1, k)
  /\ phase' = "exited" /\ exitvia' = "default" /\ signalled' = TRUE
  /\ UNCHANGED aux
  /\ UNCHANGED << bridge, sdk, faulty, no_reset, hist, conn, now, last_log_time >>

\* do_POST reaches its debug output
ReachesLog(tg, msg) ==
  tg.method = "POST" /\ tg.path = "/servo" /\ ~Raises(ServoHandler_steps(msg, FALSE))

\* The gaps tried before a request: the time matters to servo_reciever.py
\* only where the debug output can raise.
RecieverGaps(tg, msg) ==
  IF ReachesLog(tg, msg) /\ LogRaises(msg.degrees.vals) THEN Gaps
  ELSE { CHOOSE g \in Gaps : \A h \in Gaps : g <= h }

reciever_outcome(tg, msg, at, src) ==
  IF tg.method = "OPTIONS" THEN do_OPTIONS(Unset)
  ELSE ServoHandler_do_POST(tg.path, msg, ROBOT_AVAILABLE,
                            at - last_log_time > LogEveryMs, faulty, src)

\* servo_reciever.py: one request served to its end
reciever_request(tg, msg, gap) ==
  /\ bridge = "reciever" /\ phase = "serving" /\ Len(hist) < MaxCmds
  /\ gap \in RecieverGaps(tg, msg)
  /\ LET at == now + gap
         out == reciever_outcome(tg, msg, at, Len(hist) + 1)
     IN  /\ hw' = hw \o out.calls
         /\ hist' = Append(hist, Entry(tg, msg, 0, at, out, Unset))
         /\ now' = at
         /\ last_log_time' =
              IF ReachesLog(tg, msg) /\ at - last_log_time > LogEveryMs
              THEN at ELSE last_log_time
  /\ UNCHANGED aux
  /\ UNCHANGED << bridge, sdk, faulty, no_reset, phase, exitvia, signalled, conn >>

\* servo_reciever.py: a signal is delivered while do_POST has made k of its
\* driver calls; shutdown_handler resets and sys.exit(0) unwinds the request
\* (SystemExit is not an Exception), which gets no response.
reciever_request_signalled(tg, msg, k) ==
  /\ bridge = "reciever" /\ phase = "serving" /\ Len(hist) < MaxCmds
  /\ LET at == now + (CHOOSE g \in Gaps : \A h \in Gaps : g <= h)
         out == reciever_outcome(tg, msg, at, Len(hist) + 1)
         done == SubSeq(out.calls, 1, k)
     IN  /\ k <= Len(out.calls)
         /\ hw' = hw \o done \o ShutdownCalls
         /\ hist' = Append(hist, Entry(tg, msg, 0, at,
                       Outcome(0, FALSE, FALSE, done, "interrupted", Unset), Unset))
         /\ now' = at
  /\ phase' = "exited" /\ exitvia' = "handler" /\ signalled' = TRUE
  /\ UNCHANGED aux
  /\ UNCHANGED << bridge, sdk, faulty, no_reset, conn, last_log_time >>

\* servo_reciever.py: a signal is delivered while the server is idle
reciever_shutdown ==
  /\ bridge = "reciever" /\ phase = "serving"
  /\ hw' = hw \o ShutdownCalls
  /\ phase' = "exited" /\ exitvia' = "handler" /\ signalled' = TRUE
  /\ UNCHANGED aux
  /\ UNCHANGED << bridge, sdk, faulty, no_reset, hist, conn, now, last_log_time >>

\* servo_receiver_ws.py main(): no reset, no signal handler
ws_main ==
  /\ bridge = "ws" /\ phase = "boot"
  /\ phase' = IF ProbeCrashes THEN "exited" ELSE "serving"
  /\ exitvia' = IF ProbeCrashes THEN "crash" ELSE exitvia
  /\ UNCHANGED aux
  /\ UNCHANGED << bridge, sdk, faulty, no_reset, signalled, hw, hist, conn,
                  now, last_log_time >>

\* a client connects: handler(websocket) starts
ws_connect(c) ==
  /\ bridge = "ws" /\ phase = "serving" /\ conn[c] = "none"
  /\ conn' = [conn EXCEPT ![c] = "open"]
  /\ UNCHANGED aux
  /\ UNCHANGED << bridge, sdk, faulty, no_reset, phase, exitvia, signalled, hw, hist,
                  now, last_log_time >>

\* servo_receiver_ws.py handler: one frame.  The try block encloses the whole
\* loop, so an exception ends the loop and with it the connection.
ws_frame(c, msg) ==
  /\ bridge = "ws" /\ phase = "serving" /\ conn[c] = "open" /\ Len(hist) < MaxCmds
  /\ LET steps == ws_handler_steps(msg)
         calls == ExecPropagating(steps, ROBOT_AVAILABLE, faulty, Len(hist) + 1)
         raised == Raises(steps) \/ DriverRaises(steps, ROBOT_AVAILABLE, faulty)
         out == Outcome(0, FALSE, FALSE, calls,
                        IF raised THEN "aborted"
                        ELSE IF ws_skipped(msg) THEN "ignored" ELSE "applied", Unset)
     IN  /\ hw' = hw \o calls
         /\ hist' = Append(hist,
                [Entry([method |-> "FRAME", path |-> ""], msg, c, now, out, Unset)
                   EXCEPT !.reply = ws_reply(msg)])
         /\ conn' = [conn EXCEPT ![c] = IF raised THEN "closed" ELSE "open"]
  /\ UNCHANGED aux
  /\ UNCHANGED << bridge, sdk, faulty, no_reset, phase, exitvia, signalled, now,
                  last_log_time >>

\* TonyPiController.__init__: both attempts are wrapped in except Exception,
\* and RuntimeError is raised when neither succeeds
TonyPiController_raises == ~ROBOT_AVAILABLE

\* tonypi_servo_server.py main(): TonyPiController() is built before the
\* server; its RuntimeError ends the process
tonypi_main ==
  /\ bridge = "tonypi" /\ phase = "boot"
  /\ phase' = IF TonyPiController_raises THEN "exited" ELSE "serving"
  /\ exitvia' = IF TonyPiController_raises THEN "crash" ELSE exitvia
  /\ UNCHANGED aux
  /\ UNCHANGED << bridge, sdk, faulty, no_reset, signalled, hw, hist, conn, now,
                  last_log_time >>

\* tonypi_servo_server.py: handler_factory serves one request
tonypi_request(tg, msg, gap) ==
  /\ bridge = "tonypi" /\ phase = "serving" /\ Len(hist) < MaxCmds
  /\ LET at == now + gap
         la == handler_factory_last_at
         out == IF tg.method = "OPTIONS" THEN do_OPTIONS(la)
                ELSE Handler_do_POST(tg.path, msg, la, at, faulty, Len(hist) + 1)
     IN  /\ hw' = hw \o out.calls
         /\ hist' = Append(hist, Entry(tg, msg, 0, at, out, la))
         /\ now' = at
  /\ UNCHANGED aux
  /\ UNCHANGED << bridge, sdk, faulty, no_reset, phase, exitvia, signalled, conn,
                  last_log_time >>

\* The other two scripts install no signal handler: a signal ends them.
signal_default ==
  /\ bridge \in {"ws", "tonypi"} /\ phase \in {"boot", "serving"}
  /\ phase' = "exited" /\ exitvia' = "default" /\ signalled' = TRUE
  /\ UNCHANGED aux
  /\ UNCHANGED << bridge, sdk, faulty, no_reset, hw, hist, conn, now, last_log_time >>

Next ==
  \/ reciever_main
  \/ \E k \in SignalPoints : reciever_signal_at_startup(k)
  \/ \E tg \in Targets : \E msg \in BodiesFor(tg) : \E gap \in Gaps :
       reciever_request(tg, msg, gap)
  \/ \E tg \in Targets : \E msg \in BodiesFor(tg) : \E k \in SignalPoints :
       reciever_request_signalled(tg, msg, k)
  \/ reciever_shutdown
  \/ ws_main
  \/ \E c \in Conns : ws_connect(c)
  \/ \E c \in Conns : \E msg \in Frames : ws_frame(c, msg)
  \/ tonypi_main
  \/ \E tg \in Targets : \E msg \in BodiesFor(tg) : \E gap \in Gaps :
       tonypi_request(tg, msg, gap)
  \/ signal_default

Spec == Init /\ [][Next]_vars


\* ------------------------------------------------------- call-by-call view
\* The same handlers, one driver call per step, to see which handler may run
\* between two calls of another.

\* a handler that hands each command to a background task instead
runs_inline_background == FALSE

\* servo_receiver_ws.py handler: the body of "async for" holds no await, so
\* the event loop runs no other connection before the frame's calls are made
\* and reads the next frame after them.  HTTPServer (no ThreadingMixIn) in
\* the other two scripts serves a request to its end before the next accept.
runs_inline == TRUE

\* the commands tried call by call
StepMsgs ==
  { m \in GoodDense : m.head.shape = "absent" \/ FloatOK(m.head.p2) }
    \cup { m \in SparseMsgs : Len(m.servos.items) = 2 /\ m.head.shape = "dict" }

\* a handler may start on command number k
CanStart == runs_inline => (running = 0 /\ \A k \in DOMAIN task : task[k].todo = << >>)

\* the driver calls the handler of each bridge makes for msg, and whether it
\* ends by an exception that closes the connection
handler_calls(msg, src) ==
  CASE bridge = "ws" ->
         [calls |-> ExecPropagating(ws_handler_steps(msg), ROBOT_AVAILABLE, faulty, src),
          closes |-> Raises(ws_handler_steps(msg))
                       \/ DriverRaises(ws_handler_steps(msg), ROBOT_AVAILABLE, faulty)]
    [] bridge = "reciever" ->
         [calls |-> ServoHandler_do_POST("/servo", msg, ROBOT_AVAILABLE, FALSE,
                                         faulty, src).calls,
          closes |-> FALSE]
    [] OTHER ->
         [calls |-> Handler_do_POST("/servo", msg, handler_factory_last_at, now,
                                    faulty, src).calls,
          closes |-> FALSE]

\* the handler of connection c takes msg and starts on it
step_receive(c, msg) ==
  /\ phase = "serving" /\ Len(task) < MaxCmds
  /\ bridge = "ws" => conn[c] = "open"
  /\ CanStart
  /\ LET k == Len(task) + 1
         h == handler_calls(msg, k)
     IN  /\ task' = Append(task, [conn |-> c, todo |-> h.calls, closes |-> h.closes])
         /\ running' = IF runs_inline /\ h.calls # << >> THEN k ELSE running
         /\ conn' = IF h.calls = << >> /\ h.closes THEN [conn EXCEPT ![c] = "closed"]
                    ELSE conn
  /\ UNCHANGED << bridge, sdk, faulty, no_reset, phase, exitvia, signalled, hw, hist,
                  now, last_log_time, cdeg, cres >>

\* the handler of command k makes its next driver call
step_call(k) ==
  /\ k \in DOMAIN task /\ task[k].todo # << >>
  /\ runs_inline => running = k
  /\ hw' = Append(hw, Head(task[k].todo))
  /\ task' = [task EXCEPT ![k].todo = Tail(@)]
  /\ running' = IF running = k /\ Len(task[k].todo) = 1 THEN 0 ELSE running
  /\ conn' = IF Len(task[k].todo) = 1 /\ task[k].closes
             THEN [conn EXCEPT ![task[k].conn] = "closed"] ELSE conn
  /\ UNCHANGED << bridge, sdk, faulty, no_reset, phase, exitvia, signalled, hist,
                  now, last_log_time, cdeg, cres >>

StepInit == Init /\ ROBOT_AVAILABLE /\ ~no_reset

StepNext ==
  \/ reciever_main
  \/ ws_main
  \/ tonypi_main
  \/ \E c \in Conns : ws_connect(c)
  \/ \E c \in Conns : \E msg \in StepMsgs : step_receive(c, msg)
  \/ \E k \in 1..MaxCmds : step_call(k)

StepSpec == StepInit /\ [][StepNext]_vars


\* -------------------------------------------------------------- codec view
\* The conversions on their own: two degrees values a <= b go through the
\* bus and the PWM conversion of the script.

\* the finite inputs, in units of 1 / DegDen, within and beyond [0, 180]
CodecGrid == (0 - CodecMargin) .. (180 * DegDen + CodecMargin)

\* the distances between the two inputs
CodecGaps == {0, 1, DegDen, 45 * DegDen}

CodecInputs ==
  { << Num(n), Num(n + g) >> : n \in CodecGrid, g \in CodecGaps }
    \cup { << v, v >> : v \in {NaN, PosInf, NegInf} }
    \cup { << Num(0 - CodecMargin), Num(180 * DegDen + CodecMargin) >> }

\* the bus conversion of the running script
bus_codec(v) == IF bridge = "tonypi" THEN deg_to_bus_pos(v) ELSE degrees_to_pulse(v)

\* the PWM conversion of the running script
pwm_codec(v) == IF bridge = "tonypi" THEN deg_to_pwm_us(v) ELSE degrees_to_pwm_us(v)

CodecInit ==
  /\ bridge \in Bridges
  /\ sdk = "none" /\ faulty = {} /\ no_reset = FALSE
  /\ phase = "boot" /\ exitvia = "" /\ signalled = FALSE
  /\ hw = << >> /\ hist = << >> /\ conn = [c \in Conns |-> "none"]
  /\ now = Epoch /\ last_log_time = 0
  /\ task = << >> /\ running = 0
  /\ cdeg \in CodecInputs
  /\ cres = << >>

\* both inputs are converted
codec_convert ==
  /\ cres = << >>
  /\ cres' = [i \in DOMAIN cdeg |->
                [bus |-> bus_codec(cdeg[i]), pwm |-> pwm_codec(cdeg[i]),
                 client |-> client_degrees_to_pulse(cdeg[i])]]
  /\ UNCHANGED << bridge, sdk, faulty, no_reset, phase, exitvia, signalled, hw, hist,
                  conn, now, last_log_time, task, running, cdeg >>

CodecNext == codec_convert

CodecSpec == CodecInit /\ [][CodecNext]_vars

\* ------------------------------------------------------------------- claims
\* a request or frame that submits a command and was not cut short by a
\* shutdown signal
Submitted(e) ==
  /\ e.verdict # "interrupted"
  /\ \/ e.method = "FRAME"
     \/ e.method = "POST" /\ e.path = "/servo"

\* a dense command with 16 finite numbers and a head that is absent or numeric
WellFormedDense(m) ==
  /\ m.json = "obj" /\ m.kind = "humanoid16" /\ m.type = "none"
  /\ m.degrees.shape = "list" /\ Len(m.degrees.vals) = NumBusServos
  /\ \A i \in DOMAIN m.degrees.vals : m.degrees.vals[i].t = "num"
  /\ m.head.shape = "dict" =>
       /\ m.head.p1.t \in {"num", "absent"}
       /\ m.head.p2.t \in {"num", "absent"}

\* a dense command whose degrees are absent, not a list or not 16 long
WrongShape(m) ==
  /\ m.json = "obj" /\ m.kind = "humanoid16" /\ m.type # "servos"
  /\ m.degrees.shape # "list" \/ Len(m.degrees.vals) # NumBusServos

\* C1: every call that reaches the servo driver carries a bus pulse in
\* [0,1000] or a PWM value in [500,2500], whatever the client sent and
\* whichever path made the call (dense, sparse, startup or shutdown reset).
C1_DriverValuesInRange ==
  \A i \in DOMAIN hw :
    \/ hw[i].op = "bus" /\ hw[i].val \in BusMin..BusMax
    \/ hw[i].op = "pwm" /\ hw[i].val \in PwmMin..PwmMax

\* a sparse frame asking for pulse 5000 and PWM 3000 has reached the driver,
\* and so has a dense command holding -10, 200 and NaN degrees
C1_Witness ==
  /\ \E i \in DOMAIN hw :
       /\ hw[i].src >= 1 /\ hist[hw[i].src].msg.type = "servos"
       /\ hw[i].op = "pwm" /\ hist[hw[i].src].msg.head.p1 = Num(3000 * DegDen)
       /\ hw[i].val = PwmMax
  /\ \E i \in DOMAIN hw :
       /\ hw[i].src >= 1 /\ hist[hw[i].src].msg.degrees.shape = "list"
       /\ hw[i].op = "bus" /\ hw[i].id = 3 /\ hw[i].val = BusMax
       /\ hist[hw[i].src].msg.degrees.vals[3] = Deg(200)

\* C2 (as claimed): a dense command whose degrees are absent, not a list or
\* not 16 long is rejected (an error answer; on the streaming adapter, which
\* has no answer, the frame is skipped) with no driver call, on every adapter.
C2_WrongShapeRejected ==
  \A i \in DOMAIN hist :
    Submitted(hist[i]) /\ WrongShape(hist[i].msg) =>
      /\ hist[i].verdict \in {"invalid", "ignored"}
      /\ hist[i].ncalls = 0

\* a command with a malformed structure, a wrong element count or a
\* non-numeric element among the degrees or in the head
Defective(m) ==
  \/ m.json # "obj"
  \/ m.kind # "humanoid16"
  \/ m.degrees.shape # "list"
  \/ Len(m.degrees.vals) # NumBusServos
  \/ \E k \in DOMAIN m.degrees.vals : m.degrees.vals[k].t = "str"
  \/ m.head.shape = "dict" /\ (m.head.p1.t = "str" \/ m.head.p2.t = "str")

\* C3 (as claimed): a command answered with the invalid-command error
\* because of its structure, element count or a non-numeric element made no
\* driver call at all.
C3_NoPartialApplication ==
  \A i \in DOMAIN hist :
    hist[i].verdict = "invalid" /\ Defective(hist[i].msg) => hist[i].ncalls = 0

\* C4 (as claimed): of the first two valid commands of the rate-limited
\* bridge, arriving less than 1/max_fps apart, the first is applied and the
\* second is dropped without a driver call, the second seeing the timestamp
\* the first one left.
C4_SecondDropped ==
  bridge = "tonypi" /\ Len(hist) >= 2
    /\ Submitted(hist[1]) /\ WellFormedDense(hist[1].msg)
    /\ Submitted(hist[2]) /\ WellFormedDense(hist[2].msg)
    /\ hist[2].at - hist[1].at < min_interval_ms
  => /\ hist[1].verdict = "applied" /\ hist[1].ncalls >= NumBusServos
     /\ hist[2].verdict = "dropped" /\ hist[2].ncalls = 0
     /\ hist[2].la_before = hist[1].la_after

\* the first 18 driver calls are the neutral reset of main() and no later
\* call belongs to it
StartupResetDone ==
  /\ Len(hw) >= NumBusServos + 2
  /\ \A i \in 1..NumBusServos :
       hw[i].op = "bus" /\ hw[i].id = i /\ hw[i].val = NeutralBus /\ hw[i].src = 0
  /\ \A c \in 1..2 :
       LET x == hw[NumBusServos + c]
       IN  x.op = "pwm" /\ x.id = c /\ x.val = NeutralPwm /\ x.src = 0
  /\ \A i \in DOMAIN hw : i > NumBusServos + 2 => hw[i].src # 0

\* servo_reciever.py accepts or has accepted client requests
Accepting == phase = "serving" \/ hist # << >>

\* C5 (as claimed): with a backend present, the 16 + 2 neutral calls have
\* been made before servo_reciever.py accepts its first command.
C5_ResetBeforeFirstCommand ==
  bridge = "reciever" /\ ROBOT_AVAILABLE /\ Accepting => StartupResetDone

\* C5 (amended): with a backend present and the startup reset not skipped
\* (no --no-reset), the 16 + 2 neutral calls have been made before
\* servo_reciever.py accepts its first command.
C5_ResetBeforeFirstCommandUnlessSkipped ==
  bridge = "reciever" /\ ROBOT_AVAILABLE /\ ~no_reset /\ Accepting => StartupResetDone

\* a command was applied after the startup reset
C5_Witness ==
  /\ bridge = "reciever" /\ ROBOT_AVAILABLE /\ ~no_reset
  /\ Len(hist) >= 1 /\ hist[1].verdict = "applied"
  /\ Len(hw) > NumBusServos + 2 /\ hw[NumBusServos + 3].src = 1

\* the last 18 driver calls are the neutral reset of shutdown_handler
ShutdownResetDone ==
  /\ Len(hw) >= NumBusServos + 2
  /\ LET base == Len(hw) - (NumBusServos + 2)
     IN  /\ \A i \in 1..NumBusServos :
              LET x == hw[base + i]
              IN  /\ x.op = "bus" /\ x.id = i /\ x.val = NeutralBus
                  /\ x.dur = ShutdownMs /\ x.src = -1
         /\ \A c \in 1..2 :
              LET x == hw[base + NumBusServos + c]
              IN  /\ x.op = "pwm" /\ x.id = c /\ x.val = NeutralPwm
                  /\ x.dur = ShutdownMs /\ x.src = -1

\* C6 (as claimed): whenever a shutdown signal has been delivered to
\* servo_reciever.py with a backend available, the process has exited and
\* it had commanded some actuator, the neutral reset with duration 500 ms
\* was the last thing sent to the driver.
C6_NeutralAtExit ==
  bridge = "reciever" /\ ROBOT_AVAILABLE /\ signalled /\ phase = "exited" /\ hw # << >>
    => ShutdownResetDone

\* C7 (as claimed): every ping frame is answered with a pong and makes no
\* driver call.
C7_PingPong ==
  \A i \in DOMAIN hist :
    hist[i].method = "FRAME" /\ hist[i].msg.json = "obj" /\ hist[i].msg.type = "ping"
      => hist[i].reply = "pong" /\ hist[i].ncalls = 0

\* a frame that is not a JSON object, or a sparse frame with a non-numeric
\* id or pulse, or a dense frame with a non-numeric degree
MalformedFrame(m) ==
  \/ m.json # "obj"
  \/ /\ m.type = "servos" /\ m.servos.shape = "dict"
     /\ \E k \in DOMAIN m.servos.items :
          ~m.servos.items[k].sid.ok \/ m.servos.items[k].pulse.t # "num"
  \/ /\ m.type # "servos" /\ m.kind = "humanoid16" /\ m.degrees.shape = "list"
     /\ \E k \in DOMAIN m.degrees.vals : m.degrees.vals[k].t = "str"

\* C8 (as claimed): a malformed frame does not end its connection.
C8_ConnectionSurvives ==
  \A i \in DOMAIN hist :
    hist[i].method = "FRAME" /\ MalformedFrame(hist[i].msg)
      => conn[hist[i].conn] = "open"

\* C9 (as claimed): on the HTTP adapters a POST /servo with a malformed
\* body gets 400 with an error body and the CORS headers, one with a
\* well-formed dense command gets 204 with the CORS headers.
C9_PostAnswered ==
  \A i \in DOMAIN hist :
    LET e == hist[i]
    IN  e.method = "POST" /\ e.path = "/servo" /\ e.verdict # "interrupted" =>
          /\ e.msg.json # "obj" => e.status = 400 /\ e.errbody /\ e.cors
          /\ WellFormedDense(e.msg) => e.status = 204 /\ ~e.errbody /\ e.cors

\* C10 (as claimed): a POST or OPTIONS off /servo gets 404, makes no driver
\* call and leaves the rate limiter alone; OPTIONS /servo gets 204 with the
\* CORS headers.
C10_NotFound ==
  \A i \in DOMAIN hist :
    LET e == hist[i]
    IN  e.method \in {"POST", "OPTIONS"} /\ e.verdict # "interrupted" =>
          /\ e.path # "/servo" =>
               e.status = 404 /\ e.ncalls = 0 /\ e.la_after = e.la_before
          /\ e.method = "OPTIONS" /\ e.path = "/servo" => e.status = 204 /\ e.cors

\* C10 (amended): a POST off /servo gets 404, makes no driver call and
\* leaves the rate limiter alone; OPTIONS gets 204 with the CORS headers on
\* every path, /servo or not, and makes no driver call either.
C10_NotFoundForPost ==
  \A i \in DOMAIN hist :
    LET e == hist[i]
    IN  e.verdict # "interrupted" =>
          /\ e.method = "POST" /\ e.path # "/servo" =>
               e.status = 404 /\ e.ncalls = 0 /\ e.la_after = e.la_before
          /\ e.method = "OPTIONS" =>
               e.status = 204 /\ e.cors /\ e.ncalls = 0 /\ e.la_after = e.la_before

\* servo_reciever.py with a driver has answered a POST off /servo that
\* carried a valid command, and an OPTIONS off /servo
C10_Witness ==
  /\ bridge = "reciever" /\ ROBOT_AVAILABLE
  /\ \E i \in DOMAIN hist :
       /\ hist[i].method = "POST" /\ hist[i].path # "/servo"
       /\ WellFormedDense(hist[i].msg) /\ hist[i].status = 404
  /\ \E i \in DOMAIN hist :
       hist[i].method = "OPTIONS" /\ hist[i].path # "/servo" /\ hist[i].status = 204

C12_SimulatedMode ==
  ~ROBOT_AVAILABLE /\ phase # "boot" /\ ~signalled =>
    phase = "serving" /\ exitvia = "" /\ hw = << >>

\* the driver calls made so far for command k
CallsOf(k) == {j \in DOMAIN hw : hw[j].src = k}

C14_InOrderPerConnection ==
  \A i, j \in DOMAIN hw :
    /\ hw[i].src >= 1 /\ hw[j].src >= 1
    /\ task[hw[i].src].conn = task[hw[j].src].conn
    /\ hw[i].src < hw[j].src
    => i < j

\* servo_receiver_ws.py has made the driver calls of two frames of the same
\* connection
C14_Witness ==
  /\ bridge = "ws"
  /\ \E a, b \in DOMAIN task :
       /\ a < b /\ task[a].conn = task[b].conn
       /\ Cardinality(CallsOf(a)) >= NumBusServos /\ CallsOf(b) # {}
       /\ task[b].todo = << >>

\* the i-th input of the codec view is a number within [0, 180]
InRange(i) == cdeg[i].t = "num" /\ cdeg[i].n >= 0 /\ cdeg[i].n <= 180 * DegDen

\* C15: for degrees within [0, 180] the bus conversion returns an integer
\* within [0, 1000], never less for the larger of two inputs, and sends 0 to
\* 0, 90 to 500 and 180 to 1000.
C15_BusCodec ==
  cres # << >> /\ InRange(1) /\ InRange(2) =>
    /\ cres[1].bus \in 0..1000 /\ cres[2].bus \in 0..1000
    /\ cres[1].bus <= cres[2].bus
    /\ cdeg[1] = Deg(0) => cres[1].bus = 0
    /\ cdeg[1] = Deg(90) => cres[1].bus = 500
    /\ cdeg[1] = Deg(180) => cres[1].bus = 1000

\* 90 and 135 degrees have been converted, to 500 and 750
C15_Witness ==
  /\ cres # << >> /\ cdeg = << Deg(90), Deg(135) >>
  /\ cres[1].bus = 500 /\ cres[2].bus = 750

\* C16: for degrees within [0, 180] the PWM conversion returns an integer
\* within [500, 2500] and sends 90 to 1500.
C16_PwmCodec ==
  \A i \in DOMAIN cres :
    InRange(i) =>
      /\ cres[i].pwm \in 500..2500
      /\ cdeg[i] = Deg(90) => cres[i].pwm = 1500

\* 90 and 91 degrees have been converted, to 1500 and 1511 microseconds
C16_Witness ==
  /\ cres # << >> /\ cdeg = << Deg(90), Deg(91) >>
  /\ cres[1].pwm = 1500 /\ cres[2].pwm = 1511

\* the i-th input is below 0 / above 180
Below(i) == cdeg[i].t = "ninf" \/ (cdeg[i].t = "num" /\ cdeg[i].n < 0)
Above(i) == cdeg[i].t = "inf" \/ (cdeg[i].t = "num" /\ cdeg[i].n > 180 * DegDen)

\* C17: degrees outside [0, 180] are clamped before the conversion: below 0
\* both conversions give what 0 gives (bus 0, PWM 500), above 180 what 180
\* gives (bus 1000, PWM 2500).
C17_ClampedFirst ==
  \A i \in DOMAIN cres :
    /\ Below(i) => cres[i].bus = 0 /\ cres[i].pwm = 500
    /\ Above(i) => cres[i].bus = 1000 /\ cres[i].pwm = 2500

\* an input below 0 and one above 180 have been converted by each script
C17_Witness ==
  /\ cres # << >> /\ cdeg[1].t = "num" /\ cdeg[1].n < 0 /\ cdeg[2].n > 180 * DegDen
  /\ cres[1].bus = 0 /\ cres[2].pwm = 2500

\* the head of m names exactly one of p1 and p2
HalfHead(m) ==
  /\ m.head.shape = "dict"
  /\ (m.head.p1.t = "absent") # (m.head.p2.t = "absent")

\* the PWM channels written for request i
PwmChannels(i) == {hw[j].id : j \in {k \in DOMAIN hw : hw[k].src = i /\ hw[k].op = "pwm"}}

\* C18 (as claimed): a dense command whose head holds only one of p1 and p2
\* produces no PWM call; in a sparse command that was applied each of p1
\* and p2 that is present is written, on its own.
C18_HeadNeedsBoth ==
  \A i \in DOMAIN hist :
    LET e == hist[i]
    IN  Submitted(e) /\ e.msg.json = "obj" =>
          /\ e.msg.type # "servos" /\ HalfHead(e.msg) => PwmChannels(i) = {}
          /\ e.msg.type = "servos" /\ e.verdict = "applied" /\ ROBOT_AVAILABLE
               /\ e.msg.head.shape = "dict" =>
               PwmChannels(i) = {ch \in {1, 2} :
                                   (IF ch = 1 THEN e.msg.head.p1 ELSE e.msg.head.p2).t
                                     # "absent"}

\* the driver calls of request i, in the order made
CallSeq(i) ==
  LET mine(c) == c.src = i
  IN  SelectSeq(hw, mine)

\* C19: an accepted dense command, with a driver present and none of its
\* calls failing, makes exactly 16 bus calls, for the IDs 1..16 in ascending
\* order, the call for ID k carrying the bus conversion of degrees[k - 1];
\* the head's PWM calls (channel 1, then channel 2) come after all 16.
C19_DenseCallOrder ==
  \A i \in DOMAIN hist :
    LET e == hist[i]
        cs == CallSeq(i)
    IN  /\ e.verdict = "applied" /\ e.msg.type # "servos"
        /\ e.method \in {"POST", "FRAME"}
        /\ ROBOT_AVAILABLE /\ faulty = {}
        => /\ Len(cs) >= NumBusServos
           /\ \A k \in 1..NumBusServos :
                /\ cs[k].op = "bus" /\ cs[k].id = k /\ cs[k].ok
                /\ cs[k].val = degrees_to_pulse(e.msg.degrees.vals[k])
                /\ e.msg.degrees.vals[k] = Deg(30) => cs[k].val = 167
                /\ e.msg.degrees.vals[k] = Deg(90) => cs[k].val = 500
           /\ \A k \in DOMAIN cs : k > NumBusServos => cs[k].op = "pwm"
           /\ \A k, l \in DOMAIN cs :
                NumBusServos < k /\ k < l => cs[k].id = 1 /\ cs[l].id = 2

\* a dense command with 30 degrees on every servo and a head of 45 and 120
\* degrees was applied: 16 bus calls of 167, then 1000 us and 1833 us
C19_Witness ==
  /\ ROBOT_AVAILABLE /\ faulty = {}
  /\ \E i \in DOMAIN hist :
       /\ hist[i].verdict = "applied" /\ hist[i].msg.type # "servos"
       /\ Len(CallSeq(i)) = NumBusServos + 2
       /\ CallSeq(i)[1].val = 167 /\ CallSeq(i)[NumBusServos].id = NumBusServos
       /\ CallSeq(i)[NumBusServos + 1].val = 1000
       /\ CallSeq(i)[NumBusServos + 2].val = 1833

\* a POST /servo whose body validation rejects
Rejected(e) ==
  /\ e.method = "POST" /\ e.path = "/servo" /\ e.verdict # "interrupted"
  /\ ~WellFormedDense(e.msg)
  /\ e.msg.json # "obj" \/ WrongShape(e.msg) \/ Defective(e.msg)

\* C20 (as claimed): on the rate-limited bridge a command that validation
\* rejects leaves the last-accepted timestamp as it was, and a valid command
\* that arrives less than the minimum interval after a rejected one is
\* applied.
C20_ValidatedBeforeLimiter ==
  bridge = "tonypi" =>
    /\ \A i \in DOMAIN hist : Rejected(hist[i]) => hist[i].la_after = hist[i].la_before
    /\ \A i \in DOMAIN hist :
         /\ i > 1 /\ Rejected(hist[i - 1])
         /\ hist[i].method = "POST" /\ hist[i].path = "/servo"
         /\ WellFormedDense(hist[i].msg)
         /\ hist[i].at - hist[i - 1].at < min_interval_ms
         => hist[i].verdict = "applied"

BusCallSeq(i) ==
  LET mine(c) == c.src = i /\ c.op = "bus"
  IN  SelectSeq(hw, mine)

\* C22: servo_receiver_ws.py, with a driver, treats a frame as a sparse
\* command exactly when its type is servos.  Such a frame makes no call
\* from kind or degrees: its k-th bus call is for the ID of the k-th entry
\* of servos, with that entry's pulse as an integer limited to [0,1000]
\* only, and a frame processed to its end makes one call per entry.  A
\* frame of another type makes no call from a servos mapping.
C22_SparseIffServos ==
  bridge = "ws" /\ ROBOT_AVAILABLE =>
    \A i \in DOMAIN hist :
      LET e == hist[i]
          m == e.msg
          bus == BusCallSeq(i)
      IN  m.json = "obj" =>
            /\ m.type = "servos" =>
                 /\ Len(bus) <= Len(m.servos.items)
                 /\ \A k \in DOMAIN bus :
                      LET it == m.servos.items[k]
                      IN  /\ bus[k].id = it.sid.id
                          /\ it.pulse.t = "num"
                          /\ bus[k].val \in 0..1000
                          /\ it.pulse.n \in 0..(1000 * DegDen) =>
                               bus[k].val = it.pulse.n \div DegDen
                          /\ it.pulse.n > 1000 * DegDen => bus[k].val = 1000
                          /\ it.pulse.n < 0 => bus[k].val = 0
                 /\ e.verdict = "applied" => Len(bus) = Len(m.servos.items)
            /\ m.type # "servos" =>
                 /\ Len(bus) <= NumBusServos
                 /\ \A k \in DOMAIN bus :
                      bus[k].id = k /\ bus[k].val = degrees_to_pulse(m.degrees.vals[k])

\* a frame of type servos that also carries kind humanoid16 and 16 degrees
\* made the one call of its servos entry (ID 6, pulse 700), and a frame
\* with the pulses 5000 and -3 made the calls 1000 and 0
C22_Witness ==
  /\ bridge = "ws" /\ ROBOT_AVAILABLE /\ faulty = {}
  /\ \E i \in DOMAIN hist :
       /\ hist[i].msg.type = "servos" /\ hist[i].msg.kind = "humanoid16"
       /\ hist[i].msg.degrees.shape = "list"
       /\ Len(CallSeq(i)) = 1 /\ CallSeq(i)[1].id = 6 /\ CallSeq(i)[1].val = 700
  /\ \E i \in DOMAIN hist :
       /\ hist[i].msg.type = "servos" /\ Len(BusCallSeq(i)) = 2
       /\ BusCallSeq(i)[1].val = 1000 /\ BusCallSeq(i)[2].val = 0

\* C23 (as claimed): for every degrees value the client's conversion gives
\* what the receiver's bus conversion gives for the value clamped to
\* [10, 170], hence a pulse between the receiver's pulses of 10 and of 170
\* degrees.
C23_ClientMatchesReceiver ==
  \A i \in DOMAIN cres :
    cdeg[i].t = "num" =>
      /\ cres[i].client = degrees_to_pulse(Num(Max2(10 * DegDen, Min2(170 * DegDen, cdeg[i].n))))
      /\ cres[i].client >= degrees_to_pulse(Deg(10))
      /\ cres[i].client <= degrees_to_pulse(Deg(170))

====
